---- MODULE Spec2Model ----
(***************************************************************************)
(* Model of multicast_ping-rs (src/src/main.rs): an IPv6 multicast ping    *)
(* client and server.  The closed loop is one client process (the main     *)
(* thread, which sends probes and prints reports, and the receiver thread  *)
(* it spawns), the server processes that joined the group, and the UDP     *)
(* sockets between them.                                                   *)
(***************************************************************************)
EXTENDS Integers, Sequences, FiniteSets, TLC

\* ------------------------------------------------------------------------
\* Bounds of the model
\* ------------------------------------------------------------------------
\* probes the main loop sends before the model stops it: with one server in
\* the group, and with more than one
MaxProbes == 5
MaxProbesMulti == 2
\* datagrams a socket's receive buffer holds; a datagram that finds it full is dropped
BufCap == 2
\* datagrams that nodes other than the client send to the group
MaxForeign == 3
\* socket calls the model lets fail with an io error (a timeout is not one)
MaxIoErr == 1
\* segments of the group texts and characters of the interface texts main is given
MaxSegs == 4
MaxIfaceLen == 3

\* ------------------------------------------------------------------------
\* Addresses
\* ------------------------------------------------------------------------
\* Args.port, default_value_t
ServerPort == 12345
\* the host addresses of the server processes, of the client, of other nodes
Servers == {"s1", "s2"}
ClientIp == "c"
ForeignIps == {"x1", "x2", "x3"}
\* the ports the OS may give a socket bound to port 0
EphemeralPorts == {50001, 50002}

Addr(ip, port) == [ip |-> ip, port |-> port]
\* target = SocketAddr::V6(SocketAddrV6::new(mcast_addr, args.port, 0, 0))
GroupIp == "group"
target == Addr(GroupIp, ServerPort)
ServerAddr(s) == Addr(s, ServerPort)
ForeignAddrs == {Addr(x, 50001) : x \in ForeignIps}

\* a datagram: source address, destination address, payload
Dgram(src, dst, data) == [src |-> src, dst |-> dst, data |-> data]
\* args.message: the client's probe payload and the server's reply payload
message == "ping"

VARIABLES
    arg_group,      \* Args.group: the text of --group, a sequence of characters
    arg_iface,      \* Args.iface: Absent, or the text of --iface
    os_ifindex,     \* what the OS's if_nametoindex answers for arg_iface (0: no such name)
    arg_server,     \* Args.server: server mode
    start_pc,       \* position of main: "parse_group", "parse_iface", "run", "exit_err",
                    \* "panicked"
    mcast_addr,     \* main's mcast_addr: the parsed group address
    iface_index,    \* main's iface_index: the result of parse_iface
    sock_pc,        \* the socket call run_server or run_client makes next: "none"
                    \* before the first, "done" once the loops run
    failed,         \* the socket calls of the setup that returned an error
    active,         \* the servers that are running and have joined the group
    local_addr,     \* send_sock.local_addr(): address of the client's send socket
    recv_addr,      \* address recv_sock is bound to
    sendBuf,        \* datagrams are queued at send_sock, which nothing reads
    recvBuf,        \* datagrams queued in recv_sock's receive buffer
    srvBuf,         \* per server: datagrams queued in its socket
    stats_lock,     \* holder of the Mutex around ClientStats: "none", "main", "rx"
    total_sent,     \* ClientStats.total_sent
    total_replies,  \* ClientStats.total_replies
    per_server,     \* ClientStats.per_server: IpAddr -> replies
    main_pc,        \* position of the main thread in run_client's send loop
    print_due,      \* Instant::now() >= next_print
    report,         \* the values the last periodic report printed, or NoReport
    rx_pc,          \* position of the receiver thread
    rx_src,         \* src of the datagram the receiver thread is handling
    srv_pc,         \* per server: position in run_server's loop
    srv_src,        \* per server: src of the datagram being answered
    \* history of the run, for stating the properties
    nSendOk,        \* send_to calls of the main loop that returned Ok
    nRecvOk,        \* recv_from calls of the receiver thread that returned Ok
    nIoErr,         \* socket calls and console writes that returned an io error
    netLoss,        \* a datagram was dropped by the network or a full buffer
    recvFrom,       \* per server: datagrams received, counted by source address
    repliesTo,      \* per server: reply sends attempted, counted by destination
    nForeign,       \* datagrams sent to the group by other nodes
    interrupted     \* the operator's interrupt signal has arrived

netVars   == <<sendBuf, recvBuf, srvBuf, netLoss>>
statsVars == <<total_sent, total_replies, per_server>>
mainVars  == <<main_pc, print_due, report, nSendOk>>
rxVars    == <<rx_pc, rx_src, nRecvOk>>
srvVars   == <<srv_pc, srv_src, recvFrom, repliesTo>>
argVars   == <<arg_group, arg_iface, os_ifindex, arg_server>>
startVars == <<start_pc, mcast_addr, iface_index>>
sockVars  == <<sock_pc, failed>>
cfgVars   == <<argVars, startVars, sockVars, active, local_addr, recv_addr>>
vars == <<cfgVars, netVars, stats_lock, statsVars, mainVars, rxVars, srvVars,
          nIoErr, nForeign, interrupted>>

\* ------------------------------------------------------------------------
\* ClientStats
\* ------------------------------------------------------------------------
\* HashMap::new()
EmptyMap == [k \in {} |-> 0]

\* IncPeer with a slip: a peer that has no entry yet gets none
IncPeerNoInsert(ps, key) ==
    IF key \in DOMAIN ps THEN [ps EXCEPT ![key] = @ + 1] ELSE ps

\* IncPeer with a slip: every entry of the map is incremented
IncPeerAll(ps, key) ==
    [k \in DOMAIN ps \cup {key} |-> IF k \in DOMAIN ps THEN ps[k] + 1 ELSE 1]

\* st.per_server.entry(key).or_insert_with(|| ServerStat { replies: 0 }).replies += 1
IncPeer(ps, key) ==
    IF key \in DOMAIN ps
    THEN [ps EXCEPT ![key] = @ + 1]
    ELSE [k \in DOMAIN ps \cup {key} |-> IF k = key THEN 1 ELSE ps[k]]

\* src.ip(): the key of the per-server map is the address without the port
Ip(addr) == addr.ip

RECURSIVE SumOver(_, _)
SumOver(f, S) ==
    IF S = {} THEN 0
    ELSE LET k == CHOOSE x \in S : TRUE IN f[k] + SumOver(f, S \ {k})
\* the sum of the per-server reply counts
SumMap(f) == SumOver(f, DOMAIN f)

Max(a, b) == IF a >= b THEN a ELSE b

\* nothing printed; the program prints one kind of report, the periodic one
NoReport == [kind |-> "none"]
\* a report that a failed write to stdout cut short (lines 261-270)
CutReport == [kind |-> "cut"]
\* lines 258-272: what a periodic report prints
Report(sent, replies, ps) ==
    [kind |-> "periodic", total_sent |-> Max(sent, 1), total_replies |-> replies,
     per_server |-> ps]

\* ------------------------------------------------------------------------
\* Sockets and the network
\* ------------------------------------------------------------------------
\* a datagram arriving at a socket: queued, or dropped when the buffer is full
Enqueue(buf, d) == IF Len(buf) < BufCap THEN Append(buf, d) ELSE buf
Dropped(buf) == Len(buf) >= BufCap

\* the sockets of the client bound to the port a unicast datagram is sent to
ClientSocksAt(dst) ==
    (IF dst = local_addr THEN {"send_sock"} ELSE {}) \cup
    (IF dst = recv_addr THEN {"recv_sock"} ELSE {})

\* the servers whose socket is given the group's datagrams (lines 101, 104)
\* and whose process has not ended
Joined == {s \in active : srv_pc[s] # "panicked"}

\* a multicast datagram reaches the sockets of the servers in D that joined the group
Multicast(bufs, d, D) ==
    [s \in Servers |-> IF s \in D THEN Enqueue(bufs[s], d) ELSE bufs[s]]
MulticastLoss(bufs, D) ==
    D # Joined \/ \E s \in D : Dropped(bufs[s])

\* history counters: one more event for key k
Bump(f, k) ==
    IF k \in DOMAIN f
    THEN [f EXCEPT ![k] = @ + 1]
    ELSE [x \in DOMAIN f \cup {k} |-> IF x = k THEN 1 ELSE f[x]]


\* ------------------------------------------------------------------------
\* Startup: main parses the group address and the interface (lines 290-302)
\* ------------------------------------------------------------------------
\* text is a sequence of one-character strings
HexChars == <<"0", "1", "2", "3", "4", "5", "6", "7", "8", "9",
              "a", "b", "c", "d", "e", "f">>
UpperHex == <<"0", "1", "2", "3", "4", "5", "6", "7", "8", "9",
              "A", "B", "C", "D", "E", "F">>
DecChars == SubSeq(HexChars, 1, 10)
Range(q) == {q[i] : i \in 1..Len(q)}
IndexIn(q, c) == CHOOSE i \in 1..Len(q) : q[i] = c
IsHex(c) == c \in Range(HexChars) \cup Range(UpperHex)
\* char::to_digit(16)
HexVal(c) == IF c \in Range(HexChars) THEN IndexIn(HexChars, c) - 1
             ELSE IndexIn(UpperHex, c) - 1
IsDec(c) == c \in Range(DecChars)
\* char::to_digit(10)
DecVal(c) == IndexIn(DecChars, c) - 1

Fail == [state |-> "err"]
Unset == [state |-> "unset"]

\* Ipv6Addr::from_str, as main calls it on line 294 (no embedded IPv4 form: the
\* texts of the model hold no '.').
\* the hex digits that follow position pos
RECURSIVE HexRun(_, _)
HexRun(t, pos) ==
    IF pos <= Len(t) /\ IsHex(t[pos]) THEN 1 + HexRun(t, pos + 1) ELSE 0
RECURSIVE HexNumber(_, _, _)
HexNumber(t, pos, n) ==
    IF n = 0 THEN 0 ELSE HexNumber(t, pos, n - 1) * 16 + HexVal(t[pos + n - 1])
\* read_number(16, Some(4), true): one to four hex digits; a fifth digit fails the read
ReadNumber(t, pos) ==
    LET n == HexRun(t, pos)
    IN IF n = 0 \/ n > 4 THEN Fail
       ELSE [state |-> "ok", val |-> HexNumber(t, pos, n), pos |-> pos + n]
\* read_separator(':', i, read_number): every group but the first follows a ':'
ReadGroup(t, pos, i) ==
    IF i = 0 THEN ReadNumber(t, pos)
    ELSE IF pos <= Len(t) /\ t[pos] = ":" THEN ReadNumber(t, pos + 1)
    ELSE Fail
\* read_groups: up to limit groups; stops at the first that cannot be read
RECURSIVE ReadGroups(_, _, _, _, _)
ReadGroups(t, pos, i, limit, acc) ==
    IF i >= limit THEN [n |-> i, groups |-> acc, pos |-> pos]
    ELSE LET g == ReadGroup(t, pos, i)
         IN IF g.state = "ok"
            THEN ReadGroups(t, g.pos, i + 1, limit, Append(acc, g.val))
            ELSE [n |-> i, groups |-> acc, pos |-> pos]
Zeros(n) == [i \in 1..n |-> 0]
\* read_ipv6_addr, and from_str's demand that the whole text is consumed
ParseIpv6(t) ==
    LET head == ReadGroups(t, 1, 0, 8, <<>>)
    IN IF head.n = 8
       THEN IF head.pos = Len(t) + 1
            THEN [state |-> "ok", groups |-> head.groups] ELSE Fail
       ELSE IF head.pos + 1 <= Len(t) /\ t[head.pos] = ":" /\ t[head.pos + 1] = ":"
       THEN LET tail == ReadGroups(t, head.pos + 2, 0, 8 - (head.n + 1), <<>>)
            IN IF tail.pos = Len(t) + 1
               THEN [state |-> "ok",
                     groups |-> head.groups \o Zeros(8 - head.n - tail.n) \o tail.groups]
               ELSE Fail
       ELSE Fail

\* Ipv6Addr::is_multicast: the first byte is 0xff
IsMulticast(groups) == groups[1] \div 256 = 255

\* lines 294-300: the group text is parsed as it stands; a failure ends main with the
\* error "invalid IPv6 address"; an address that is not multicast draws a warning only
ParseGroup(t) ==
    LET r == ParseIpv6(t)
    IN IF r.state = "ok"
       THEN [state |-> "ok", groups |-> r.groups, warned |-> ~IsMulticast(r.groups)]
       ELSE [state |-> "err", text |-> t]

\* a u32, held as hi * 100000 + lo so that 2^32 - 1 = 42949 * 100000 + 67295 fits
U32(hi, lo) == [hi |-> hi, lo |-> lo]
U32Max == U32(42949, 67295)
U32Overflow(v) == v.hi > U32Max.hi \/ (v.hi = U32Max.hi /\ v.lo > U32Max.lo)
\* checked_mul(10) and checked_add(d) of u32::from_str
RECURSIVE ParseDigits(_, _, _)
ParseDigits(t, pos, acc) ==
    IF pos > Len(t) THEN [state |-> "ok", val |-> acc]
    ELSE IF ~IsDec(t[pos]) THEN Fail
    ELSE LET v == U32(acc.hi * 10 + acc.lo \div 10000,
                      (acc.lo % 10000) * 10 + DecVal(t[pos]))
         IN IF U32Overflow(v) THEN Fail ELSE ParseDigits(t, pos + 1, v)
\* line 76: s.parse::<u32>(): an optional '+', then decimal digits that fit 32 bits
ParseU32(t) ==
    IF t = <<>> THEN Fail
    ELSE IF t[1] \in {"+", "-"} /\ Len(t) = 1 THEN Fail
    ELSE IF t[1] = "+" THEN ParseDigits(t, 2, U32(0, 0))
    ELSE ParseDigits(t, 1, U32(0, 0))

Absent == <<"None">>
\* lines 39-51: if_name_to_index: the OS's answer, None when it is 0
IfNameToIndex(name, os) == IF os = 0 THEN Fail ELSE [state |-> "ok", val |-> U32(0, os)]

\* parse_iface with a slip: the name is looked up before the number is tried
ParseIfaceNameFirst(iface, os) ==
    IF iface = Absent THEN [state |-> "ok", index |-> U32(0, 0)]
    ELSE LET num == ParseU32(iface)
             idx == IfNameToIndex(iface, os)
         IN IF idx.state = "ok" THEN [state |-> "ok", index |-> idx.val]
            ELSE IF num.state = "ok" THEN [state |-> "ok", index |-> num.val]
            ELSE [state |-> "err", name |-> iface]

\* lines 73-87: parse_iface
ParseIface(iface, os) ==
    IF iface = Absent THEN [state |-> "ok", index |-> U32(0, 0)]
    ELSE LET num == ParseU32(iface)
             idx == IfNameToIndex(iface, os)
         IN IF num.state = "ok" THEN [state |-> "ok", index |-> num.val]
            ELSE IF idx.state = "ok" THEN [state |-> "ok", index |-> idx.val]
            ELSE [state |-> "err", name |-> iface]

\* the texts the model gives main
\* a multicast group address, "ff02::1"
GroupText == <<"f", "f", "0", "2", ":", ":", "1">>
\* a group that a host is a member of only once a socket has joined it
OtherGroupText == <<"f", "f", "0", "2", ":", ":", "2">>
\* Args.group's default_value (line 19)
DefaultGroup == <<"f", "f", "1", "2", ":", "c", ":", "9", "0", "9", ":", "3", "1", "9", "9", ":", "e", "8", "b", "a", ":", "6", "f", "6", "f", ":", "7", "d", "2", "3", ":", "e", "6", "a", "e", ":", "d", "8", "5", "d">>
FullGroup == <<"f", "f", "0", "2", ":", "0", ":", "0", ":", "0", ":", "0", ":", "0", ":", "0", ":", "1">>
FullGroupLong == <<"f", "f", "0", "2", ":", "0", ":", "0", ":", "0", ":", "0", ":", "0", ":", "0", "0", "0", "1", "0", "0", "0", "2">>
\* the segments the group texts are joined from with ':'
GroupSegs == {<<>>, <<"f", "f", "0", "2">>, <<"1">>, <<"0", "0", "0", "1", "0", "0", "0", "2">>, <<"g">>}
RECURSIVE Join(_)
Join(q) == IF Len(q) = 0 THEN <<>>
           ELSE IF Len(q) = 1 THEN q[1]
           ELSE q[1] \o <<":">> \o Join(Tail(q))
GroupInputs ==
    {Join(q) : q \in UNION {[1..n -> GroupSegs] : n \in 1..MaxSegs}}
    \cup {GroupText, DefaultGroup, FullGroup, FullGroupLong}
IfaceChars == {"0", "1", "9", "+", "e"}
IfaceInputs ==
    {Absent} \cup UNION {[1..n -> IfaceChars] : n \in 1..MaxIfaceLen}
    \cup {<<"4", "2", "9", "4", "9", "6", "7", "2", "9", "5">>, <<"4", "2", "9", "4", "9", "6", "7", "2", "9", "6">>, <<"0", "0", "0", "0", "0", "0", "0", "0", "0", "0", "1">>, <<"e", "t", "h", "0">>, <<"-", "1">>}
\* the answers of the OS's if_nametoindex
OsIndexes == 0..2

\* ------------------------------------------------------------------------
\* Initial states: the sockets are bound, the stats are zero, the threads are
\* at the head of their loops
\* ------------------------------------------------------------------------
InitNet ==
    /\ active \in {{"s1"}, Servers}
    /\ start_pc = "run"
    /\ arg_group = GroupText
    /\ arg_iface = Absent
    /\ os_ifindex = 0
    /\ arg_server = FALSE
    /\ sock_pc = "done"
    /\ failed = {}
    /\ mcast_addr = ParseGroup(arg_group)
    /\ iface_index = ParseIface(arg_iface, os_ifindex)
    /\ local_addr = Addr(ClientIp, 50002)
    /\ recv_addr \in {Addr(ClientIp, p) : p \in EphemeralPorts}
    /\ sendBuf = FALSE
    /\ recvBuf = <<>>
    /\ srvBuf = [s \in Servers |-> <<>>]
    /\ netLoss = FALSE
    /\ srv_pc = [s \in Servers |-> IF s \in active THEN "recv" ELSE "off"]
    /\ srv_src = [s \in Servers |-> Addr("none", 0)]
    /\ recvFrom = [s \in Servers |-> EmptyMap]
    /\ repliesTo = [s \in Servers |-> EmptyMap]
    /\ nIoErr = 0
    /\ nForeign = 0

\* lines 197-201, 239: ClientStats all zero, next_print five seconds ahead
InitStats ==
    /\ stats_lock = "none"
    /\ total_sent = 0
    /\ total_replies = 0
    /\ per_server = EmptyMap
    /\ print_due = FALSE
    /\ report = NoReport
    /\ rx_src = Addr("none", 0)
    /\ nSendOk = 0
    /\ nRecvOk = 0
    /\ interrupted = FALSE

Init ==
    /\ InitNet
    /\ InitStats
    /\ main_pc = "send"
    /\ rx_pc = "recv"

\* ------------------------------------------------------------------------
\* run_client: the send loop of the main thread (lines 241-277)
\* ------------------------------------------------------------------------
\* a write to the console that fails is one more failed I/O call of the run
WriteErr(written) == IF written THEN 0 ELSE 1

\* the probes the model lets the client send
ProbeLimit == IF Cardinality(active) <= 1 THEN MaxProbes ELSE MaxProbesMulti

\* line 256: if Instant::now() >= next_print { report } and then the sleep
AfterSend == IF print_due THEN "lock_report" ELSE "sleep"

\* SendNext with a slip: the Ok arm does not count the send
SendNextNeverCounts(ok) == AfterSend

\* SendNext with a slip: the Err arm counts the send too
SendNextCountsAll(ok) == "lock_sent"

\* lines 243-253: where the loop goes after send_to returned
SendNext(ok) == IF ok THEN "lock_sent" ELSE AfterSend

\* line 243: send_sock.send_to(&msg_bytes, &target), Ok or Err; the Err arm
\* writes the error to stderr (line 251), and a write that fails panics the main
\* thread, which ends the process
MainSend ==
    /\ main_pc = "send"
    /\ report' = NoReport
    /\ \E ok \in BOOLEAN : \E written \in (IF ok THEN {TRUE} ELSE BOOLEAN) :
        /\ main_pc' = IF written THEN SendNext(ok) ELSE "panicked"
        /\ IF ok
           THEN /\ nSendOk < ProbeLimit
                /\ nSendOk' = nSendOk + 1
                /\ \E D \in SUBSET Joined :
                    /\ srvBuf' = Multicast(srvBuf, Dgram(local_addr, target, message), D)
                    /\ netLoss' = (netLoss \/ MulticastLoss(srvBuf, D))
                /\ UNCHANGED nIoErr
           ELSE /\ nIoErr + 1 + WriteErr(written) <= MaxIoErr
                /\ nIoErr' = nIoErr + 1 + WriteErr(written)
                /\ UNCHANGED <<nSendOk, srvBuf, netLoss>>
    /\ UNCHANGED <<cfgVars, sendBuf, recvBuf, stats_lock, statsVars, print_due,
                   rxVars, srvVars, nForeign, interrupted>>

\* lines 245-247: stats_main.lock().unwrap(); st.total_sent += 1; drop(st).
\* Then line 256.  On a poisoned mutex lock() returns Err and unwrap() panics.
MainCountSent ==
    /\ main_pc = "lock_sent"
    /\ stats_lock \in {"none", "poisoned"}
    /\ total_sent' = IF stats_lock = "none" THEN total_sent + 1 ELSE total_sent
    /\ main_pc' = IF stats_lock = "none" THEN AfterSend ELSE "panicked"
    /\ UNCHANGED <<cfgVars, netVars, stats_lock, total_replies, per_server, print_due,
                   report, nSendOk, rxVars, srvVars, nIoErr, nForeign, interrupted>>

\* MainLockReport with a slip: the report reads the stats without the lock
MainLockReportNoLock ==
    /\ main_pc = "lock_report"
    /\ main_pc' = "print"
    /\ UNCHANGED <<cfgVars, netVars, stats_lock, statsVars, print_due, report, nSendOk,
                   rxVars, srvVars, nIoErr, nForeign, interrupted>>

\* line 257: let st = stats_main.lock().unwrap(); on a poisoned mutex unwrap() panics
MainLockReport ==
    /\ main_pc = "lock_report"
    /\ stats_lock \in {"none", "poisoned"}
    /\ stats_lock' = IF stats_lock = "none" THEN "main" ELSE stats_lock
    /\ main_pc' = IF stats_lock = "none" THEN "print" ELSE "panicked"
    /\ UNCHANGED <<cfgVars, netVars, statsVars, print_due, report, nSendOk,
                   rxVars, srvVars, nIoErr, nForeign, interrupted>>

\* lines 258-274: print the report with the guard held, set next_print, drop the
\* guard.  A println! whose write to stdout fails panics: the main thread unwinds
\* with the guard held and the process ends.
MainPrint ==
    /\ main_pc = "print"
    /\ \E written \in BOOLEAN :
         /\ nIoErr + WriteErr(written) <= MaxIoErr
         /\ nIoErr' = nIoErr + WriteErr(written)
         /\ IF written
            THEN /\ report' = Report(total_sent, total_replies, per_server)
                 /\ print_due' = FALSE
                 /\ stats_lock' = "none"
                 /\ main_pc' = "sleep"
            ELSE /\ report' = CutReport
                 /\ print_due' = print_due
                 /\ stats_lock' = "poisoned"
                 /\ main_pc' = "panicked"
    /\ UNCHANGED <<cfgVars, netVars, statsVars, nSendOk,
                   rxVars, srvVars, nForeign, interrupted>>

\* line 276: thread::sleep(interval)
MainSleep ==
    /\ main_pc = "sleep"
    /\ main_pc' = "send"
    /\ UNCHANGED <<cfgVars, netVars, stats_lock, statsVars, print_due, report,
                   nSendOk, rxVars, srvVars, nIoErr, nForeign, interrupted>>

\* time passes: five seconds have gone by since next_print was set (lines 239, 273)
Tick ==
    /\ ~print_due
    /\ ~interrupted
    /\ main_pc # "panicked"
    /\ print_due' = TRUE
    /\ UNCHANGED <<cfgVars, netVars, stats_lock, statsVars, main_pc, report,
                   nSendOk, rxVars, srvVars, nIoErr, nForeign, interrupted>>

\* ------------------------------------------------------------------------
\* run_client: the receiver thread (lines 207-231).  It runs while the process
\* does: a panic of the main thread ends the process where the receiver stands.
\* ------------------------------------------------------------------------
\* line 210-211: recv.recv_from(&mut buf) returns Ok((n, src))
RxRecvOk ==
    /\ main_pc # "panicked"
    /\ rx_pc = "recv"
    /\ recvBuf # <<>>
    /\ rx_src' = Head(recvBuf).src
    /\ recvBuf' = Tail(recvBuf)
    /\ nRecvOk' = nRecvOk + 1
    /\ rx_pc' = "lock"
    /\ UNCHANGED <<cfgVars, sendBuf, srvBuf, netLoss, stats_lock, statsVars, mainVars,
                   srvVars, nIoErr, nForeign, interrupted>>

\* lines 220-224: the 500 ms read timeout expires with nothing queued (the
\* timeout is in force unless set_read_timeout failed, lines 192-194)
RxTimeout ==
    /\ main_pc # "panicked"
    /\ rx_pc = "recv"
    /\ recvBuf = <<>>
    /\ "rx.set_read_timeout" \notin failed
    /\ rx_pc' = "sleep"
    /\ UNCHANGED <<cfgVars, netVars, stats_lock, statsVars, mainVars, rx_src, nRecvOk,
                   srvVars, nIoErr, nForeign, interrupted>>

\* lines 225-228: recv_from fails with another error, which is written to stderr
\* (line 226); a write that fails panics the receiver thread
RxRecvErr ==
    /\ main_pc # "panicked"
    /\ rx_pc = "recv"
    /\ \E written \in BOOLEAN :
         /\ nIoErr + 1 + WriteErr(written) <= MaxIoErr
         /\ nIoErr' = nIoErr + 1 + WriteErr(written)
         /\ rx_pc' = IF written THEN "sleep" ELSE "panicked"
    /\ UNCHANGED <<cfgVars, netVars, stats_lock, statsVars, mainVars, rx_src, nRecvOk,
                   srvVars, nForeign, interrupted>>

\* lines 222, 227: thread::sleep, then the next iteration
RxSleep ==
    /\ main_pc # "panicked"
    /\ rx_pc = "sleep"
    /\ rx_pc' = "recv"
    /\ UNCHANGED <<cfgVars, netVars, stats_lock, statsVars, mainVars, rx_src, nRecvOk,
                   srvVars, nIoErr, nForeign, interrupted>>

\* lines 214-215: stats_rx.lock().unwrap(); st.total_replies += 1
RxLock ==
    /\ main_pc # "panicked"
    /\ rx_pc = "lock"
    /\ stats_lock = "none"
    /\ stats_lock' = "rx"
    /\ total_replies' = total_replies + 1
    /\ rx_pc' = "inc_peer"
    /\ UNCHANGED <<cfgVars, netVars, total_sent, per_server, mainVars, rx_src, nRecvOk,
                   srvVars, nIoErr, nForeign, interrupted>>

\* lines 213, 216-217: the entry of src.ip() is created if absent and incremented
RxIncPeer ==
    /\ main_pc # "panicked"
    /\ rx_pc = "inc_peer"
    /\ per_server' = IncPeer(per_server, Ip(rx_src))
    /\ rx_pc' = "print"
    /\ UNCHANGED <<cfgVars, netVars, stats_lock, total_sent, total_replies, mainVars,
                   rx_src, nRecvOk, srvVars, nIoErr, nForeign, interrupted>>

\* lines 218-219: println! with the guard held; the guard is dropped at the end of
\* the arm.  A write to stdout that fails panics the receiver thread: it unwinds
\* with the guard held, which poisons the mutex.
RxPrint ==
    /\ main_pc # "panicked"
    /\ rx_pc = "print"
    /\ \E written \in BOOLEAN :
         /\ nIoErr + WriteErr(written) <= MaxIoErr
         /\ nIoErr' = nIoErr + WriteErr(written)
         /\ stats_lock' = IF written THEN "none" ELSE "poisoned"
         /\ rx_pc' = IF written THEN "recv" ELSE "panicked"
    /\ UNCHANGED <<cfgVars, netVars, statsVars, mainVars, rx_src, nRecvOk,
                   srvVars, nForeign, interrupted>>

\* ------------------------------------------------------------------------
\* run_server: receive and reply (lines 143-163)
\* ------------------------------------------------------------------------
\* line 155: the address the reply to a datagram from src is sent to
ReplyDest(src) == src

\* the server's process has ended: its socket is closed, what was queued is gone
Closed(bufs, s) == [bufs EXCEPT ![s] = <<>>]

\* lines 144-152: sock.recv_from(&mut buf) returns Ok((n, src)) and the receipt
\* is written to stdout; a write that fails panics, which ends the server
SrvRecvOk(s) ==
    /\ srv_pc[s] = "recv"
    /\ srvBuf[s] # <<>>
    /\ srv_src' = [srv_src EXCEPT ![s] = Head(srvBuf[s]).src]
    /\ recvFrom' = [recvFrom EXCEPT ![s] = Bump(@, Head(srvBuf[s]).src)]
    /\ \E written \in BOOLEAN :
         /\ nIoErr + WriteErr(written) <= MaxIoErr
         /\ nIoErr' = nIoErr + WriteErr(written)
         /\ srvBuf' = IF written THEN [srvBuf EXCEPT ![s] = Tail(@)] ELSE Closed(srvBuf, s)
         /\ srv_pc' = [srv_pc EXCEPT ![s] = IF written THEN "reply" ELSE "panicked"]
    /\ UNCHANGED <<cfgVars, sendBuf, recvBuf, netLoss, stats_lock, statsVars, mainVars,
                   rxVars, repliesTo, nForeign, interrupted>>

\* lines 146-149: recv_from fails; the error is written to stderr and the loop
\* continues; a write that fails panics, which ends the server
SrvRecvErr(s) ==
    /\ srv_pc[s] = "recv"
    /\ \E written \in BOOLEAN :
         /\ nIoErr + 1 + WriteErr(written) <= MaxIoErr
         /\ nIoErr' = nIoErr + 1 + WriteErr(written)
         /\ srvBuf' = IF written THEN srvBuf ELSE Closed(srvBuf, s)
         /\ srv_pc' = [srv_pc EXCEPT ![s] = IF written THEN "recv" ELSE "panicked"]
    /\ UNCHANGED <<cfgVars, sendBuf, recvBuf, netLoss, stats_lock, statsVars, mainVars,
                   rxVars, srv_src, recvFrom, repliesTo, nForeign, interrupted>>

\* lines 154-162: sock.send_to(reply_bytes, &src), Ok or Err, then the next iteration.
\* A reply that is sent goes to a socket bound to its destination: one of the client's
\* sockets, or a node outside the model.  Either arm writes to the console (lines
\* 157, 160); a write that fails panics, which ends the server.
SrvReply(s) ==
    /\ srv_pc[s] = "reply"
    /\ LET dst == ReplyDest(srv_src[s])
           d == Dgram(ServerAddr(s), dst, message)
       IN /\ repliesTo' = [repliesTo EXCEPT ![s] = Bump(@, dst)]
          /\ \E ok, written \in BOOLEAN :
             /\ srvBuf' = IF written THEN srvBuf ELSE Closed(srvBuf, s)
             /\ srv_pc' = [srv_pc EXCEPT ![s] = IF written THEN "recv" ELSE "panicked"]
             /\ nIoErr + (IF ok THEN 0 ELSE 1) + WriteErr(written) <= MaxIoErr
             /\ nIoErr' = nIoErr + (IF ok THEN 0 ELSE 1) + WriteErr(written)
             /\ IF ok
                THEN \E sock \in ClientSocksAt(dst) \cup {"lost"} :
                         /\ recvBuf' = IF sock = "recv_sock" THEN Enqueue(recvBuf, d)
                                       ELSE recvBuf
                         /\ sendBuf' = (sendBuf \/ sock = "send_sock")
                         /\ netLoss' = (netLoss
                                        \/ (sock = "lost" /\ ClientSocksAt(dst) # {})
                                        \/ (sock = "recv_sock" /\ Dropped(recvBuf)))
                ELSE UNCHANGED <<recvBuf, sendBuf, netLoss>>
    /\ UNCHANGED <<cfgVars, stats_lock, statsVars, mainVars, rxVars,
                   srv_src, recvFrom, nForeign, interrupted>>

\* a node other than the client sends a datagram to the group
ForeignProbe(a) ==
    /\ nForeign < MaxForeign
    /\ nForeign' = nForeign + 1
    /\ \E D \in SUBSET Joined :
        /\ srvBuf' = Multicast(srvBuf, Dgram(a, target, message), D)
        /\ netLoss' = (netLoss \/ MulticastLoss(srvBuf, D))
    /\ UNCHANGED <<cfgVars, sendBuf, recvBuf, stats_lock, statsVars, mainVars, rxVars,
                   srvVars, nIoErr, interrupted>>

\* ------------------------------------------------------------------------
\* The interrupt signal.  main installs no handler (lines 290-311) and the loop of
\* run_client has no exit (lines 241-277): the signal's default action ends the
\* process where it stands.
\* ------------------------------------------------------------------------
Interrupt ==
    /\ ~interrupted
    /\ main_pc # "panicked"
    /\ interrupted' = TRUE
    /\ main_pc' = "killed"
    /\ rx_pc' = "killed"
    /\ UNCHANGED <<cfgVars, netVars, stats_lock, statsVars, print_due, report,
                   nSendOk, rx_src, nRecvOk, srvVars, nIoErr, nForeign>>

\* ------------------------------------------------------------------------
\* main (lines 290-302)
\* ------------------------------------------------------------------------
\* lines 294-300: Ipv6Addr::from_str(&args.group), `?` on failure; the warning
\* for an address that is not multicast is written to stderr (line 299), and a
\* write that fails panics
MainParseGroup ==
    /\ start_pc = "parse_group"
    /\ mcast_addr' = ParseGroup(arg_group)
    /\ \E written \in BOOLEAN :
         /\ written \/ (mcast_addr'.state = "ok" /\ mcast_addr'.warned
                        /\ nIoErr < MaxIoErr)
         /\ nIoErr' = nIoErr + WriteErr(written)
         /\ start_pc' = IF mcast_addr'.state # "ok" THEN "exit_err"
                        ELSE IF ~written THEN "panicked"
                        ELSE "parse_iface"
    /\ UNCHANGED <<argVars, iface_index, sockVars, active, local_addr, recv_addr, netVars,
                   stats_lock, statsVars, mainVars, rxVars, srvVars, nForeign,
                   interrupted>>

\* line 302: parse_iface(&args.iface)?
MainParseIface ==
    /\ start_pc = "parse_iface"
    /\ iface_index' = ParseIface(arg_iface, os_ifindex)
    /\ start_pc' = IF iface_index'.state = "ok" THEN "run" ELSE "exit_err"
    /\ UNCHANGED <<argVars, mcast_addr, sockVars, active, local_addr, recv_addr, netVars,
                   stats_lock, statsVars, mainVars, rxVars, srvVars, nIoErr, nForeign,
                   interrupted>>

\* ------------------------------------------------------------------------
\* run_server and run_client before their loops: the socket calls
\* ------------------------------------------------------------------------
\* make_recv_socket (lines 89-110), called on line 138
\* and the println! before it (line 137)
ServerCalls ==
    <<"srv.println", "srv.new", "srv.set_reuse_address", "srv.set_reuse_port",
      "srv.bind", "srv.join_multicast", "srv.set_nonblocking">>
\* the println! of line 167, make_send_socket (lines 112-134), recv_sock (lines
\* 173-184), lines 188-205
ClientCalls(index) ==
    <<"cli.println", "send.new", "send.set_reuse_address", "send.set_reuse_port",
      "send.bind">>
    \o (IF index # U32(0, 0) THEN <<"send.set_multicast_if">> ELSE <<>>)
    \o <<"rx.new", "rx.set_reuse_address", "rx.set_reuse_port", "rx.bind",
         "send.local_addr", "cli.println_local_addr", "rx.set_read_timeout",
         "rx.try_clone">>
\* ff02::1, all nodes: every interface is a member of it at all times
AllNodes == ParseIpv6(GroupText).groups
\* the call from whose return the kernel queues the group's datagrams at the
\* server's socket.  A socket bound to the port (line 101) is given the datagrams
\* of every group its host is a member of: of ff02::1 at once, of another group
\* once the socket has joined it (line 104).
ReceivesFrom(groups) == IF groups = AllNodes THEN "srv.bind" ELSE "srv.join_multicast"
\* the calls that write to stdout: a write that fails panics
IsPrint(call) == call \in {"srv.println", "cli.println", "cli.println_local_addr"}
\* lines 304-308: if args.server { run_server } else { run_client }
SetupCalls == IF arg_server THEN ServerCalls ELSE ClientCalls(iface_index.index)

\* Propagates with a slip: the error of a bind is dropped with .ok()
PropagatesButBind(call) ==
    call \notin {"srv.set_reuse_port", "send.set_reuse_port", "rx.set_reuse_port",
                 "rx.set_read_timeout", "srv.bind", "send.bind", "rx.bind"}

\* the error of the call is returned with `?`; .ok() drops it (lines 97, 118, 179, 194)
Propagates(call) ==
    call \notin {"srv.set_reuse_port", "send.set_reuse_port", "rx.set_reuse_port",
                 "rx.set_read_timeout"}

CallAt(i) == SetupCalls[i]
PosOf(call) == CHOOSE i \in 1..Len(SetupCalls) : SetupCalls[i] = call
\* the call the setup makes now, and the one after it
CurrentCall == IF sock_pc = "none" THEN CallAt(1) ELSE sock_pc
AfterCall(call) ==
    IF PosOf(call) = Len(SetupCalls) THEN "ready" ELSE CallAt(PosOf(call) + 1)

\* one call of the setup, Ok or Err.  The server's socket receives the group's
\* datagrams from the return of the call ReceivesFrom names until the process ends.
MainSetupCall ==
    /\ start_pc = "run"
    /\ sock_pc \notin {"ready", "done"}
    /\ \E ok \in BOOLEAN :
        /\ ok \/ nIoErr < MaxIoErr
        /\ nIoErr' = IF ok THEN nIoErr ELSE nIoErr + 1
        /\ failed' = IF ok THEN failed ELSE failed \cup {CurrentCall}
        /\ IF ok \/ ~Propagates(CurrentCall)
           THEN /\ sock_pc' = AfterCall(CurrentCall)
                /\ start_pc' = start_pc
                /\ active' = IF ok /\ CurrentCall = ReceivesFrom(mcast_addr.groups)
                             THEN active \cup {"s1"} ELSE active
                /\ srvBuf' = srvBuf
           ELSE /\ sock_pc' = CurrentCall
                /\ start_pc' = IF IsPrint(CurrentCall) THEN "panicked" ELSE "exit_err"
                /\ active' = IF arg_server THEN active \ {"s1"} ELSE active
                /\ srvBuf' = IF arg_server THEN Closed(srvBuf, "s1") ELSE srvBuf
        /\ local_addr' = IF ok /\ CurrentCall = "send.bind"
                         THEN Addr(ClientIp, 50002) ELSE local_addr
        /\ \E p \in EphemeralPorts :
             recv_addr' = IF ok /\ CurrentCall = "rx.bind"
                          THEN Addr(ClientIp, p) ELSE recv_addr
    /\ UNCHANGED <<argVars, mcast_addr, iface_index, sendBuf, recvBuf, netLoss,
                   stats_lock, statsVars, mainVars, rxVars, srvVars, nForeign,
                   interrupted>>

\* the setup is complete: run_server enters its loop (line 143) as server s1,
\* which joined the group in its setup;
\* run_client spawns the receiver thread (line 207) and enters its send loop
\* (line 241).  thread::spawn panics when the OS refuses the thread: the main
\* thread ends there, and with it the process, before any probe is sent.
MainStartLoops ==
    /\ start_pc = "run"
    /\ sock_pc = "ready"
    /\ IF arg_server
       THEN /\ srv_pc' = [srv_pc EXCEPT !["s1"] = "recv"]
            /\ sock_pc' = "done"
            /\ UNCHANGED <<main_pc, rx_pc, start_pc, failed, nIoErr>>
       ELSE /\ \E spawned \in BOOLEAN :
                 IF spawned
                 THEN /\ main_pc' = "send"
                      /\ rx_pc' = "recv"
                      /\ sock_pc' = "done"
                      /\ UNCHANGED <<start_pc, failed, nIoErr>>
                 ELSE /\ start_pc' = "panicked"
                      /\ failed' = failed \cup {"thread.spawn"}
                      /\ nIoErr' = nIoErr + 1
                      /\ UNCHANGED <<main_pc, rx_pc, sock_pc>>
            /\ UNCHANGED srv_pc
    /\ UNCHANGED <<active, argVars, mcast_addr, iface_index, local_addr, recv_addr,
                   netVars, stats_lock, statsVars, print_due, report, nSendOk, rx_src,
                   nRecvOk, srv_src, recvFrom, repliesTo, nForeign, interrupted>>

\* ------------------------------------------------------------------------
\* Specifications
\* ------------------------------------------------------------------------
MainStep ==
    \/ MainSend \/ MainCountSent
    \/ MainLockReport \/ MainPrint \/ MainSleep
RxStep ==
    \/ RxRecvOk \/ RxTimeout \/ RxRecvErr \/ RxSleep
    \/ RxLock \/ RxIncPeer \/ RxPrint
SrvStep ==
    \E s \in Servers : SrvRecvOk(s) \/ SrvRecvErr(s) \/ SrvReply(s)

\* the closed loop: one client, the servers of its group and the clock
Next == MainStep \/ RxStep \/ SrvStep \/ Tick
Spec == Init /\ [][Next]_vars

\* the closed loop with one server, and the operator who may interrupt the client
InitInterrupt == Init /\ active = {"s1"}
NextInterrupt == Next \/ Interrupt
SpecInterrupt == InitInterrupt /\ [][NextInterrupt]_vars

\* the servers alone, with any node sending to the group
InitServer ==
    /\ InitNet
    /\ InitStats
    /\ main_pc = "off"
    /\ rx_pc = "off"
NextServer == SrvStep \/ \E a \in ForeignAddrs : ForeignProbe(a)
SpecServer == InitServer /\ [][NextServer]_vars

\* main's startup, before any socket exists
InitStartup ==
    /\ start_pc = "parse_group"
    /\ sock_pc = "none"
    /\ failed = {}
    /\ mcast_addr = Unset
    /\ iface_index = Unset
    /\ local_addr = Addr("none", 0)
    /\ recv_addr = Addr("none", 0)
    /\ sendBuf = FALSE
    /\ recvBuf = <<>>
    /\ srvBuf = [s \in Servers |-> <<>>]
    /\ netLoss = FALSE
    /\ srv_pc = [s \in Servers |-> IF s \in active THEN "recv" ELSE "off"]
    /\ srv_src = [s \in Servers |-> Addr("none", 0)]
    /\ recvFrom = [s \in Servers |-> EmptyMap]
    /\ repliesTo = [s \in Servers |-> EmptyMap]
    /\ nIoErr = 0
    /\ nForeign = 0
    /\ InitStats
    /\ main_pc = "off"
    /\ rx_pc = "off"
NextStartup == MainParseGroup \/ MainParseIface

\* every group text, with a few interface arguments
InitGroup ==
    /\ arg_group \in GroupInputs
    /\ arg_iface \in {Absent, <<"1">>, <<"e">>}
    /\ os_ifindex \in {0, 1}
    /\ arg_server = FALSE
    /\ active = {}
    /\ InitStartup
SpecGroup == InitGroup /\ [][NextStartup]_vars

\* every interface argument and answer of the OS, with the one group text
InitIface ==
    /\ arg_group = GroupText
    /\ arg_iface \in IfaceInputs
    /\ os_ifindex \in OsIndexes
    /\ arg_server = FALSE
    /\ active = {}
    /\ InitStartup
SpecIface == InitIface /\ [][NextStartup]_vars

\* one process from its start: main parses its arguments, makes its sockets and
\* runs its loop, as the server s1 with other nodes sending to the group, or as
\* the client of a group that the server s2 has joined
InitProcess ==
    /\ arg_server \in BOOLEAN
    /\ arg_group \in {GroupText, DefaultGroup}
                     \cup (IF arg_server THEN {OtherGroupText} ELSE {})
    /\ arg_iface \in {Absent, <<"e">>, <<"1">>}
    /\ os_ifindex = 0
    /\ active = IF arg_server THEN {} ELSE {"s2"}
    /\ InitStartup
NextProcess ==
    \/ MainParseGroup \/ MainParseIface \/ MainSetupCall \/ MainStartLoops
    \/ MainStep \/ RxStep \/ SrvStep \/ Tick
    \/ \E a \in ForeignAddrs : arg_server /\ ForeignProbe(a)
SpecProcess == InitProcess /\ [][NextProcess]_vars

\* ------------------------------------------------------------------------
\* Properties
\* ------------------------------------------------------------------------
\* nothing is in flight and no thread is in the middle of handling a datagram
Quiet ==
    /\ \A s \in Servers : srvBuf[s] = <<>> /\ srv_pc[s] # "reply"
    /\ recvBuf = <<>>
    /\ rx_pc \in {"recv", "sleep"}
    /\ main_pc # "lock_sent"

\* no thread has been ended by a failed write to the console
NoPanic ==
    /\ main_pc # "panicked" /\ rx_pc # "panicked"
    /\ \A s \in Servers : srv_pc[s] # "panicked"

\* C1: with one active server, no loss, no failed socket call and no failed
\* write to the console, once the client has sent 5 probes and
\* every datagram has been handled, total_sent is 5, total_replies is 5 and
\* per_server holds exactly the server's entry, with count 5.
C1_EndToEnd ==
    (active = {"s1"} /\ ~netLoss /\ nIoErr = 0 /\ NoPanic /\ nSendOk = 5 /\ Quiet)
        => /\ total_sent = 5
           /\ total_replies = 5
           /\ per_server = [k \in {"s1"} |-> 5]

\* C2 as stated: total_replies <= total_sent in every reachable state.
C2_RepliesLeSent == total_replies <= total_sent

\* the probes whose send_to has returned Ok: those counted, and the one the main
\* thread is about to count, or was about to count when lock().unwrap() panicked
\* on the poisoned mutex (line 245)
ProbesOut ==
    total_sent + (IF \/ main_pc = "lock_sent"
                     \/ (main_pc = "panicked" /\ nSendOk > total_sent)
                  THEN 1 ELSE 0)

\* C2 as amended: total_replies never exceeds the number of servers in the group
\* times the number of probes whose send has completed (total_sent, plus one while
\* the sender stands between its send and its increment).
C2_RepliesBounded == total_replies <= Cardinality(active) * ProbesOut

\* replies outnumber the counted sends
C2_Witness == total_replies > total_sent /\ C2_RepliesBounded

\* C3: whenever the receiver is not between its two increments (so at every
\* state another thread can see under the lock), total_replies is the sum of the
\* per-server counts.
C3_TotalIsSum == rx_pc # "inc_peer" => total_replies = SumMap(per_server)

\* the reporter holds the lock and reads two peers' counts
C3_Witness ==
    /\ stats_lock = "main"
    /\ Cardinality(DOMAIN per_server) = 2
    /\ total_replies >= 2

\* C4: no update is lost: whenever the receiver is not in the middle of counting
\* a datagram, total_replies and the sum of the per-server counts equal the number
\* N of datagrams it received; whenever the sender is not waiting to count a send,
\* total_sent equals the number M of its successful sends.
C4_NoLostUpdate ==
    /\ rx_pc \notin {"lock", "inc_peer"}
         => total_replies = nRecvOk /\ SumMap(per_server) = nRecvOk
    /\ main_pc # "lock_sent" => total_sent = nSendOk

\* C5: a server has attempted exactly one reply per datagram it received, to
\* that datagram's source, the reply to the datagram in hand being the one it
\* attempts next; no reply is ever addressed to the group.
C5_ReplyPerDatagram ==
    \A s \in Servers :
        /\ srv_pc[s] # "reply" => repliesTo[s] = recvFrom[s]
        /\ srv_pc[s] = "reply" => Bump(repliesTo[s], srv_src[s]) = recvFrom[s]
        /\ \A d \in DOMAIN repliesTo[s] : d.ip # GroupIp

\* C6: reply dispatch does not block intake: a server can take the next datagram
\* from its socket whenever one is queued, also while a reply is still to be sent.
C6_IntakeNotBlocked ==
    \A s \in active : srvBuf[s] # <<>> => ENABLED SrvRecvOk(s)

\* C7: total_sent changes only by the step that follows a send_to that returned
\* Ok, by exactly one per such send; a send that fails changes no statistic and
\* is not counted.
C7_CountsSuccessOnly ==
    [][/\ (main_pc' = "lock_sent" /\ main_pc # "lock_sent") => nSendOk' = nSendOk + 1
       /\ total_sent' # total_sent
            => main_pc = "lock_sent" /\ main_pc' # "lock_sent"
               /\ total_sent' = total_sent + 1
       /\ (main_pc = "send" /\ main_pc' # "send" /\ nSendOk' = nSendOk)
            => statsVars' = statsVars /\ main_pc' # "lock_sent"]_vars

\* the second successful send is about to be counted
C7_Witness == main_pc = "lock_sent" /\ nSendOk = 2 /\ total_sent = 1

\* C8: after the interrupt signal no probe is sent and a final snapshot of the
\* statistics has been printed when the process has ended.
C8_FinalSnapshot ==
    (interrupted /\ main_pc = "killed") => report.kind = "final"

\* decimal digits only, few enough for their value to be computed directly
ShortNumber(t) == t # <<>> /\ Len(t) <= 4 /\ \A i \in 1..Len(t) : IsDec(t[i])
RECURSIVE DigitsValue(_)
DigitsValue(t) ==
    IF t = <<>> THEN 0 ELSE DigitsValue(SubSeq(t, 1, Len(t) - 1)) * 10 + DecVal(t[Len(t)])

\* C9: an absent interface argument gives index 0; an argument that parses as an
\* unsigned number gives that number, whatever the OS says of the name; any other
\* argument gives the OS's index for the name when it is not 0, and fails naming
\* the argument when it is.
C9_ParseIface ==
    iface_index # Unset =>
        /\ arg_iface = Absent => iface_index = [state |-> "ok", index |-> U32(0, 0)]
        /\ (arg_iface # Absent /\ ShortNumber(arg_iface))
             => iface_index = [state |-> "ok", index |-> U32(0, DigitsValue(arg_iface))]
        /\ (arg_iface # Absent /\ ParseU32(arg_iface).state = "ok")
             => iface_index = [state |-> "ok", index |-> ParseU32(arg_iface).val]
        /\ (arg_iface # Absent /\ ParseU32(arg_iface).state # "ok" /\ os_ifindex # 0)
             => iface_index = [state |-> "ok", index |-> U32(0, os_ifindex)]
        /\ (arg_iface # Absent /\ ParseU32(arg_iface).state # "ok" /\ os_ifindex = 0)
             => iface_index = [state |-> "err", name |-> arg_iface]

\* the argument "1" has given index 1 where the OS knows an interface of that
\* name with index 2
C9_Witness ==
    /\ start_pc = "run"
    /\ arg_iface = <<"1">>
    /\ os_ifindex = 2
    /\ iface_index = [state |-> "ok", index |-> U32(0, 1)]

\* the recovery the address resolver is to apply: every run of more than four
\* characters between colons is cut into four-character segments
RECURSIVE SplitLong(_, _, _)
SplitLong(t, pos, run) ==
    IF pos > Len(t) THEN <<>>
    ELSE IF t[pos] = ":" THEN <<":">> \o SplitLong(t, pos + 1, 0)
    ELSE IF run = 4 THEN <<":", t[pos]>> \o SplitLong(t, pos + 1, 1)
    ELSE <<t[pos]>> \o SplitLong(t, pos + 1, run + 1)
Recovered(t) == SplitLong(t, 1, 0)

\* C10: a group text that fails the direct parse but parses once its long
\* segments are split is accepted; startup fails only if the recovered text
\* fails too.
C10_Recovery ==
    (mcast_addr # Unset /\ ParseIpv6(Recovered(arg_group)).state = "ok")
        => mcast_addr.state = "ok"

\* no thread of the process has entered its loop: it has sent nothing, received
\* nothing and counted nothing
NoLoopIo ==
    /\ main_pc = "off" /\ rx_pc = "off" /\ srv_pc["s1"] = "off"
    /\ nSendOk = 0 /\ nRecvOk = 0
    /\ recvFrom["s1"] = EmptyMap /\ repliesTo["s1"] = EmptyMap
    /\ statsVars = <<0, 0, EmptyMap>>

\* C11: when the group text or the interface fails to parse, or a socket's bind
\* or the multicast join fails, main has returned the error and no loop of the
\* process has started or made a send or receive.
C11_StartupAborts ==
    (\/ mcast_addr.state = "err"
     \/ iface_index.state = "err"
     \/ failed \cap {"srv.bind", "srv.join_multicast", "send.bind", "rx.bind"} # {})
        => start_pc = "exit_err" /\ NoLoopIo

\* the multicast join of the server has failed
C11_Witness == "srv.join_multicast" \in failed /\ start_pc = "exit_err"

\* C12: no failure of steady-state I/O halts a loop: the sender, the receiver
\* and every server stay in their loops, whatever a send, a receive or a write
\* to the console returns.
C12_NoLoopHalts == NoPanic

\* C13: the stats lock is never held across I/O: no thread holds the lock at
\* the point where it prints to the console.
C13_NoIoUnderLock ==
    /\ rx_pc = "print" => stats_lock # "rx"
    /\ main_pc = "print" => stats_lock # "main"

\* C14: the reporter progresses independently of the sender: once the report
\* period has elapsed, the report can be emitted as soon as the stats lock is
\* free, wherever the sender stands.
C14_ReporterIndependent ==
    (print_due /\ stats_lock = "none") => ENABLED MainLockReport

\* C15: every report prints one consistent state of the statistics: the printed
\* total of replies is the sum of the printed per-peer counts, also while the
\* receiver is counting replies.
C15_ReportConsistent ==
    report.kind = "periodic" => report.total_replies = SumMap(report.per_server)

\* a report was printed while the receiver, a datagram in hand, waits for the lock
C15_Witness ==
    /\ report.kind = "periodic"
    /\ report.total_replies >= 1
    /\ rx_pc = "lock"
    /\ main_pc = "sleep"

\* C16: no deadlock on the stats: whenever the sender requests the lock, the
\* lock is free or held by a thread that will release it.
C16_LockObtainable ==
    main_pc \in {"lock_sent", "lock_report"} => stats_lock # "poisoned"

\* the count of peer k in the map ps, 0 when the peer has no entry
CountOf(ps, k) == IF k \in DOMAIN ps THEN ps[k] ELSE 0

\* C17: the receiver changes the stats only on a successful receipt, by
\* total_replies + 1 and by + 1 on the entry of the datagram's source (created at
\* 1 for a new peer); total_sent and the other peers' counts stay as they are,
\* and a timeout or a failed receive changes nothing.
C17_ReceiverFrame ==
    [][/\ total_replies' # total_replies =>
             /\ rx_pc = "lock" /\ rx_pc' = "inc_peer"
             /\ nRecvOk = total_replies + 1
             /\ total_replies' = total_replies + 1
             /\ per_server' = per_server
       /\ per_server' # per_server =>
             /\ rx_pc = "inc_peer" /\ rx_pc' = "print"
             /\ total_replies' = total_replies
             /\ DOMAIN per_server' = DOMAIN per_server \cup {Ip(rx_src)}
             /\ \A k \in DOMAIN per_server' :
                    per_server'[k] = CountOf(per_server, k)
                                     + (IF k = Ip(rx_src) THEN 1 ELSE 0)
       /\ rx_pc' # rx_pc => total_sent' = total_sent
       /\ (rx_pc = "recv" /\ rx_pc' = "sleep") => statsVars' = statsVars
       /\ (rx_pc' = "print" /\ rx_pc # "print") =>
             total_replies = nRecvOk /\ SumMap(per_server') = nRecvOk
      ]_vars

\* the receiver has counted the first reply of a second peer
C17_Witness ==
    /\ rx_pc = "print"
    /\ Cardinality(DOMAIN per_server) = 2
    /\ per_server[Ip(rx_src)] = 1

\* C18: successive probes of the client carry increasing sequence numbers: no
\* two probes of the client queued at a server have the same payload.
C18_ProbesNumbered ==
    \A s \in Servers : \A i, j \in DOMAIN srvBuf[s] :
        (i < j /\ srvBuf[s][i].src = local_addr /\ srvBuf[s][j].src = local_addr)
            => srvBuf[s][i].data # srvBuf[s][j].data

\* C19: the total-sent figure of a printed report is the value of total_sent at
\* the moment of the report, also when no send has succeeded yet.
C19_PrintedSentIsCounter ==
    report.kind = "periodic" => report.total_sent = total_sent

====
